---- MODULE Spec2Model ----
(***************************************************************************)
(* Event registration and ticketing: the booking transaction of            *)
(* RegistrationRepository.Book (SELECT ... FOR UPDATE, duplicate check,    *)
(* capacity check, UPDATE, INSERT, COMMIT), the service-level validation   *)
(* in front of it, the events/registrations schema with its constraints,   *)
(* and the pgx connection pool all of them share.                          *)
(*                                                                         *)
(* The store is PostgreSQL at READ COMMITTED: `events` and `registrations` *)
(* hold the committed rows; the writes of an open transaction are kept in  *)
(* txBooked/txRegs until COMMIT applies them or ROLLBACK discards them.    *)
(* Strings are tuples of one-character strings.                            *)
(***************************************************************************)
EXTENDS Integers, Sequences, FiniteSets, TLC

\* ---------------------------------------------------------------- bounds

\* Number of Register requests (one goroutine, one transaction each).
NCalls == 3

\* Number of storage faults (failed round trips) in one behaviour.
MaxFaults == 1

\* Largest capacity an organiser asks for in the model.
MaxCapacity == 2

\* the values the clock takes: 0..MaxClock
MaxClock == 2

\* ------------------------------------------------------ program constants

\* poolCfg.MaxConns
MaxConns == 20

\* the ceiling of CreateEvent: 100_000
CapacityCeiling == 100000
MaxNameLen == 200

\* ------------------------------------------------------------- universes

Calls == 1..NCalls

\* uuid.New() of EventRepository.Create draws from these
EventIds == {"e1", "e2"}

\* the {id} path parameter of a request: an id, or empty
PathIds == EventIds \cup {""}

EmA == <<"a", "@", "x", ".", "y">>
EmB == <<"b", "@", "x", ".", "y">>

\* user_email of a request body, as sent
RawEmails ==
    { EmA,
      <<" ", "A", "@", "x", ".", "y", " ">>,
      EmB,
      <<"a", "b">>,
      <<>> }

\* name of a CreateEventRequest, as sent
RawNames == { <<>>, <<" ">>, <<" ", "n">> }

\* capacity of a CreateEventRequest, as sent
RawCapacities == (0..MaxCapacity) \cup {CapacityCeiling + 1}

NoCall == 0

\* ------------------------------------------------------ string functions

\* strings.ToLower on one character
LowerChar(ch) ==
    CASE ch = "A" -> "a"
      [] ch = "B" -> "b"
      [] OTHER -> ch

\* strings.ToLower
ToLower(s) == [i \in 1..Len(s) |-> LowerChar(s[i])]

IsSpace(ch) == ch = " "

RECURSIVE TrimLeft(_)
TrimLeft(s) ==
    IF s # <<>> /\ IsSpace(Head(s)) THEN TrimLeft(Tail(s)) ELSE s

RECURSIVE TrimRight(_)
TrimRight(s) ==
    IF s # <<>> /\ IsSpace(s[Len(s)])
    THEN TrimRight(SubSeq(s, 1, Len(s) - 1))
    ELSE s

\* strings.TrimSpace
TrimSpace(s) == TrimRight(TrimLeft(s))

\* positions of ch in s
Positions(s, ch) == {i \in 1..Len(s) : s[i] = ch}

\* strings.Contains(s, ch) for a one-character needle
Contains(s, ch) == Positions(s, ch) # {}

\* a validation that accepts every e-mail
isValidEmail_Lenient(email) ==
    TRUE

\* isValidEmail: exactly two parts around "@", a non-empty local part and a
\* "." somewhere in the domain part
isValidEmail(email) ==
    LET ats == Positions(email, "@") IN
    /\ Cardinality(ats) = 1
    /\ LET at == CHOOSE i \in ats : TRUE IN
       /\ at - 1 > 0
       /\ Contains(SubSeq(email, at + 1, Len(email)), ".")

\* the e-mail passed on as it was sent
NormalizeEmail_AsSent(raw) ==
    raw

\* req.UserEmail = strings.TrimSpace(strings.ToLower(req.UserEmail))
NormalizeEmail(raw) == TrimSpace(ToLower(raw))

\* ------------------------------------------------------------------ state

VARIABLES
    events,         \* committed rows of table events: id -> [name, capacity, bookedCount]
    registrations,  \* committed rows of table registrations
    pc,             \* where each Register request stands
    eventID,        \* Book's eventID argument
    userEmail,      \* Book's userEmail argument (normalised by Register)
    capacity,       \* Book's local capacity
    bookedCount,    \* Book's local bookedCount
    result,         \* what the request returned
    tx,             \* the request's transaction: none, open, committed, rolledback
    rowLock,        \* the holder of each events row lock, or NoCall
    txBooked,       \* the open transaction's uncommitted change of booked_count
    txRegs,         \* the open transaction's uncommitted registrations
    reading,        \* read queries (GetByID, List, ListByEvent) holding a connection
    cancelled,      \* whether the request's context is done
    lister,         \* the ListRegistrations request and what it returned
    lastCreate,     \* the latest CreateEvent request and what it returned
    now,            \* the server's clock
    createdAt       \* the created_at of the registration each request built

vars == <<events, registrations, pc, eventID, userEmail, capacity, bookedCount,
          result, tx, rowLock, txBooked, txRegs, reading, cancelled, lister,
          lastCreate, now, createdAt>>

\* the state of the requests other than Register
otherVars == <<cancelled, lister, lastCreate, now, createdAt>>

\* no ListRegistrations request yet
NoLister == [pc |-> "idle", id |-> "", existed |-> FALSE, fault |-> FALSE,
             out |-> "none", rows |-> {}]

\* no CreateEvent request yet
NoCreate == [name |-> <<>>, capacity |-> 0, out |-> "none", id |-> ""]

\* the other requests before they start
OtherInit ==
    /\ cancelled = [c \in Calls |-> FALSE]
    /\ lister = NoLister
    /\ lastCreate = NoCreate
    /\ now = 0
    /\ createdAt = [c \in Calls |-> 0]

callVars == <<pc, eventID, userEmail, capacity, bookedCount, result>>

\* ------------------------------------------------------- schema, queries

\* the events table without CONSTRAINT no_overbooking
EventsCheck_NoOverbooking(row) ==
    /\ Len(row.name) >= 1 /\ Len(row.name) <= 200
    /\ row.capacity > 0
    /\ row.bookedCount >= 0

\* CHECK (char_length(name) BETWEEN 1 AND 200), CHECK (capacity > 0),
\* CHECK (booked_count >= 0), CONSTRAINT no_overbooking
EventsCheck(row) ==
    /\ Len(row.name) >= 1 /\ Len(row.name) <= 200
    /\ row.capacity > 0
    /\ row.bookedCount >= 0
    /\ row.bookedCount <= row.capacity

\* event_id <> $1 in place of event_id = $1
KeyMatch_OtherEvent(r, id, email) ==
    r.eventID # id /\ r.userEmail = email

\* WHERE event_id = $1 AND user_email = $2, and the key of unique_registration
KeyMatch(r, id, email) ==
    r.eventID = id /\ r.userEmail = email

\* what the statements of transaction c see: the committed rows and its own
RegsSeenBy(c) == registrations \cup txRegs[c]

\* SELECT COUNT(*) FROM registrations WHERE event_id = $1 AND user_email = $2
DupCount(c) ==
    Cardinality({r \in RegsSeenBy(c) : KeyMatch(r, eventID[c], userEmail[c])})

\* CHECK (user_email LIKE '%@%'), REFERENCES events(id), unique_registration
RegistrationsCheck(c, reg) ==
    /\ Contains(reg.userEmail, "@")
    /\ reg.eventID \in DOMAIN events
    /\ \A r \in RegsSeenBy(c) : ~KeyMatch(r, reg.eventID, reg.userEmail)
    /\ \A r \in RegsSeenBy(c) : r.id # reg.id

\* Event.IsFull / step 3 of Book: bookedCount >= capacity
IsFull(cap, booked) == booked >= cap

\* connections checked out of the pool: one per open transaction, one per
\* running read query
ConnsInUse == Cardinality({c \in Calls : tx[c] = "open"}) + reading

\* pgxpool hands out a connection only below MaxConns
PoolHasConn == ConnsInUse < MaxConns

FaultsSoFar == Cardinality({c \in Calls : result[c] = "Failure"})

\* ------------------------------------------------------------------- Init

Init ==
    /\ events = <<>>
    /\ registrations = {}
    /\ pc = [c \in Calls |-> "idle"]
    /\ eventID = [c \in Calls |-> ""]
    /\ userEmail = [c \in Calls |-> <<>>]
    /\ capacity = [c \in Calls |-> 0]
    /\ bookedCount = [c \in Calls |-> 0]
    /\ result = [c \in Calls |-> "none"]
    /\ tx = [c \in Calls |-> "none"]
    /\ rowLock = [e \in EventIds |-> NoCall]
    /\ txBooked = [c \in Calls |-> 0]
    /\ txRegs = [c \in Calls |-> {}]
    /\ reading = 0
    /\ OtherInit

\* ----------------------------------------------------------- transactions

\* a rollback that discards the writes and keeps the row locks
Rollback_LockKept(c) ==
    /\ tx' = [tx EXCEPT ![c] = "rolledback"]
    /\ txBooked' = [txBooked EXCEPT ![c] = 0]
    /\ txRegs' = [txRegs EXCEPT ![c] = {}]
    /\ UNCHANGED rowLock

\* tx.Rollback: the transaction's writes are discarded, its row locks are
\* released and its connection goes back to the pool
Rollback(c) ==
    /\ tx' = [tx EXCEPT ![c] = "rolledback"]
    /\ txBooked' = [txBooked EXCEPT ![c] = 0]
    /\ txRegs' = [txRegs EXCEPT ![c] = {}]
    /\ rowLock' = [e \in EventIds |-> IF rowLock[e] = c THEN NoCall ELSE rowLock[e]]

\* the deferred test inverted: if err == nil { _ = tx.Rollback(ctx) }
Deferred_Inverted(c, errIsNil) ==
    IF errIsNil
    THEN Rollback(c)
    ELSE UNCHANGED <<tx, txBooked, txRegs, rowLock>>

\* Book's deferred function: if err != nil { _ = tx.Rollback(ctx) }, where err
\* is Book's local variable at the time of the return
Deferred(c, errIsNil) ==
    IF errIsNil
    THEN UNCHANGED <<tx, txBooked, txRegs, rowLock>>
    ELSE Rollback(c)

\* the request returns `outcome` to its caller
Return(c, outcome) ==
    /\ pc' = [pc EXCEPT ![c] = "returned"]
    /\ result' = [result EXCEPT ![c] = outcome]

\* ------------------------------------------------- EventService.CreateEvent

\* the validation without its upper limit
CreateEventValid_NoCeiling(name, cap) ==
    /\ name # <<>>
    /\ ~(cap <= 0)

\* the validation of EventService.CreateEvent, on the trimmed name
CreateEventValid(name, cap) ==
    /\ name # <<>>
    /\ ~(cap <= 0)
    /\ ~(cap > CapacityCeiling)

\* uuid.New(): an id no event has yet; the ids are drawn in the order e1, e2
NextEventId ==
    IF "e1" \notin DOMAIN events THEN "e1"
    ELSE IF "e2" \notin DOMAIN events THEN "e2"
    ELSE "none"

\* EventService.CreateEvent and EventRepository.Create: one INSERT on a pool
\* connection, with a fresh uuid
CreateEvent(id, rawName, cap) ==
    LET name == TrimSpace(rawName)
        row == [name |-> name, capacity |-> cap, bookedCount |-> 0]
    IN
    /\ id = NextEventId
    /\ IF CreateEventValid(name, cap)
       THEN /\ PoolHasConn
            /\ events' = IF EventsCheck(row) THEN events @@ (id :> row) ELSE events
       ELSE UNCHANGED events
    /\ UNCHANGED <<registrations, callVars, tx, rowLock, txBooked, txRegs, reading, otherVars>>

\* a name longer than the table accepts
LongName == [i \in 1..(MaxNameLen + 1) |-> "n"]

\* the names and capacities of the CreateEvent requests that are observed
CreateNames == RawNames \cup {LongName}
CreateCapacities == {-1, 0, 1, MaxCapacity, CapacityCeiling, CapacityCeiling + 1}

\* what CreateEvent returns: a validation error before any statement, the
\* wrapped error of an INSERT that the table rejects, or the new event
CreateEventResult(rawName, cap) ==
    LET name == TrimSpace(rawName)
        row == [name |-> name, capacity |-> cap, bookedCount |-> 0]
    IN
    IF ~CreateEventValid(name, cap) THEN [out |-> "ValidationError", row |-> row]
    ELSE IF ~EventsCheck(row) THEN [out |-> "Failure", row |-> row]
    ELSE [out |-> "Ok", row |-> row]

\* CreateEvent with its request and its answer kept; the uuid is drawn by
\* EventRepository.Create, after the validation
CreateEventRequest(rawName, cap) ==
    LET res == CreateEventResult(rawName, cap)
        id == NextEventId
    IN
    /\ res.out = "Ok" => id \in EventIds
    /\ res.out # "ValidationError" => PoolHasConn
    /\ events' = IF res.out = "Ok" THEN events @@ (id :> res.row) ELSE events
    /\ lastCreate' = [name |-> rawName, capacity |-> cap, out |-> res.out,
                      id |-> IF res.out = "Ok" THEN id ELSE ""]
    /\ UNCHANGED <<registrations, callVars, tx, rowLock, txBooked, txRegs, reading,
                   cancelled, lister, now, createdAt>>

NextCreate ==
    \E n \in CreateNames, cap \in CreateCapacities : CreateEventRequest(n, cap)

\* CreateEvent requests alone, from the empty tables
SpecCreate == Init /\ [][NextCreate]_vars

\* --------------------------------------------------- EventService.Register

\* EventService.Register up to the call of Book: normalise, validate
Register(c, id, raw) ==
    LET email == NormalizeEmail(raw) IN
    /\ pc[c] = "idle"
    \* the requests are numbered in their order of arrival
    /\ \A d \in Calls : d < c => pc[d] # "idle"
    /\ IF email = <<>> \/ ~isValidEmail(email) \/ id = ""
       THEN /\ Return(c, "ValidationError")
            /\ UNCHANGED <<eventID, userEmail>>
       ELSE /\ pc' = [pc EXCEPT ![c] = "begin"]
            /\ eventID' = [eventID EXCEPT ![c] = id]
            /\ userEmail' = [userEmail EXCEPT ![c] = email]
            /\ UNCHANGED result
    /\ UNCHANGED <<events, registrations, capacity, bookedCount, tx, rowLock,
                   txBooked, txRegs, reading, otherVars>>

\* ---------------------------------------------- RegistrationRepository.Book

\* tx, err := r.db.Begin(ctx): waits for a pool connection
BookBegin(c) ==
    /\ pc[c] = "begin"
    /\ PoolHasConn
    /\ tx' = [tx EXCEPT ![c] = "open"]
    /\ pc' = [pc EXCEPT ![c] = "lock"]
    /\ UNCHANGED <<events, registrations, eventID, userEmail, capacity, bookedCount,
                   result, rowLock, txBooked, txRegs, reading, otherVars>>

\* a lock on the whole table: the row cannot be locked while any row is
RowLockFree_TableLock(e) ==
    \A x \in EventIds : rowLock[x] = NoCall

\* FOR UPDATE granted at once, whoever holds the row's lock
RowLockFree_Always(e) ==
    TRUE

\* FOR UPDATE is granted when no other transaction holds the row's lock
RowLockFree(e) ==
    rowLock[e] = NoCall

\* Step 1 without the test for pgx.ErrNoRows: a missing event is taken for
\* an empty event of capacity 1
BookLockEvent_NoExistenceCheck(c) ==
    LET e == eventID[c]
        found == e \in DOMAIN events
    IN
    /\ pc[c] = "lock"
    /\ found => RowLockFree(e)
    /\ rowLock' = [rowLock EXCEPT ![e] = c]
    /\ capacity' = [capacity EXCEPT ![c] = IF found THEN events[e].capacity ELSE 1]
    /\ bookedCount' = [bookedCount EXCEPT ![c] =
                          IF found THEN events[e].bookedCount + txBooked[c] ELSE 0]
    /\ pc' = [pc EXCEPT ![c] = "dup"]
    /\ UNCHANGED <<result, tx, txBooked, txRegs>>
    /\ UNCHANGED <<events, registrations, eventID, userEmail, reading, otherVars>>

\* Step 1: SELECT capacity, booked_count FROM events WHERE id = $1 FOR UPDATE
BookLockEvent(c) ==
    LET e == eventID[c] IN
    /\ pc[c] = "lock"
    /\ IF e \notin DOMAIN events
       THEN \* pgx.ErrNoRows: err is set, the deferred function rolls back
            /\ Return(c, "NotFound")
            /\ Deferred(c, FALSE)
            /\ UNCHANGED <<capacity, bookedCount>>
       ELSE /\ RowLockFree(e)
            /\ rowLock' = [rowLock EXCEPT ![e] = c]
            /\ capacity' = [capacity EXCEPT ![c] = events[e].capacity]
            /\ bookedCount' = [bookedCount EXCEPT ![c] = events[e].bookedCount + txBooked[c]]
            /\ pc' = [pc EXCEPT ![c] = "dup"]
            /\ UNCHANGED <<result, tx, txBooked, txRegs>>
    /\ UNCHANGED <<events, registrations, eventID, userEmail, reading, otherVars>>

\* the capacity check made before the duplicate check
CheckOutcome_FullFirst(dup, cap, booked) ==
    IF IsFull(cap, booked) THEN "Full"
    ELSE IF dup > 0 THEN "AlreadyRegistered"
    ELSE "proceed"

\* Steps 2 and 3 after the query: dupCount > 0, then bookedCount >= capacity
CheckOutcome(dup, cap, booked) ==
    IF dup > 0 THEN "AlreadyRegistered"
    ELSE IF IsFull(cap, booked) THEN "Full"
    ELSE "proceed"

\* Step 2: SELECT COUNT(*) ..., and step 3: the capacity guard. Both returns
\* leave err nil (the Scan succeeded), so the deferred function does nothing.
BookCheck(c) ==
    LET out == CheckOutcome(DupCount(c), capacity[c], bookedCount[c]) IN
    /\ pc[c] = "dup"
    /\ IF out = "proceed"
       THEN /\ pc' = [pc EXCEPT ![c] = "update"]
            /\ UNCHANGED <<result, tx, txBooked, txRegs, rowLock>>
       ELSE /\ Return(c, out)
            /\ Deferred(c, TRUE)
    /\ UNCHANGED <<events, registrations, eventID, userEmail, capacity, bookedCount,
                   reading, otherVars>>

\* SET booked_count = booked_count + 2, on a table without its CHECKs
IncrementRow_Unchecked(row) ==
    [ok |-> TRUE, row |-> [row EXCEPT !.bookedCount = @ + 2]]

\* UPDATE events SET booked_count = booked_count + 1, which the table's CHECK
\* constraints accept or reject
IncrementRow(row) ==
    LET new == [row EXCEPT !.bookedCount = @ + 1] IN
    [ok |-> EventsCheck(new), row |-> new]

\* the events row as transaction c sees it
RowSeenBy(c, e) == [events[e] EXCEPT !.bookedCount = @ + txBooked[c]]

\* the UPDATE sent on the pool instead of the transaction: committed at once
BookIncrement_AutoCommit(c) ==
    LET e == eventID[c]
        upd == IncrementRow(events[e])
    IN
    /\ pc[c] = "update"
    /\ rowLock[e] \in {NoCall, c}
    /\ IF upd.ok
       THEN /\ events' = [events EXCEPT ![e] = upd.row]
            /\ pc' = [pc EXCEPT ![c] = "insert"]
            /\ UNCHANGED <<result, tx, txBooked, txRegs, rowLock>>
       ELSE /\ Return(c, "Failure")
            /\ Deferred(c, FALSE)
            /\ UNCHANGED events
    /\ UNCHANGED <<registrations, eventID, userEmail, capacity, bookedCount, reading, otherVars>>

\* Step 4: UPDATE events SET booked_count = booked_count + 1 WHERE id = $1
BookIncrement(c) ==
    LET e == eventID[c]
        upd == IncrementRow(RowSeenBy(c, e))
    IN
    /\ pc[c] = "update"
    /\ rowLock[e] \in {NoCall, c}
    /\ IF upd.ok
       THEN /\ txBooked' = [txBooked EXCEPT ![c] = upd.row.bookedCount - events[e].bookedCount]
            /\ rowLock' = [rowLock EXCEPT ![e] = c]
            /\ pc' = [pc EXCEPT ![c] = "insert"]
            /\ UNCHANGED <<result, tx, txRegs>>
       ELSE /\ Return(c, "Failure")
            /\ Deferred(c, FALSE)
    /\ UNCHANGED <<events, registrations, eventID, userEmail, capacity, bookedCount,
                   reading, otherVars>>

\* a clock read backwards from its last value
Timestamp_Backwards(c) == MaxClock - now

\* CreatedAt: time.Now().UTC(), read when the registration record is built
Timestamp(c) == now

\* Step 5: INSERT INTO registrations (id, event_id, user_email, created_at)
BookInsert(c) ==
    LET reg == [id |-> c, eventID |-> eventID[c], userEmail |-> userEmail[c]] IN
    /\ pc[c] = "insert"
    /\ createdAt' = [createdAt EXCEPT ![c] = Timestamp(c)]
    \* an uncommitted row with the same key makes the INSERT wait
    /\ \A d \in Calls \ {c} :
          \A r \in txRegs[d] : ~KeyMatch(r, reg.eventID, reg.userEmail)
    /\ IF RegistrationsCheck(c, reg)
       THEN /\ txRegs' = [txRegs EXCEPT ![c] = @ \cup {reg}]
            /\ pc' = [pc EXCEPT ![c] = "commit"]
            /\ UNCHANGED <<result, tx, txBooked, rowLock>>
       ELSE /\ Return(c, "Failure")
            /\ Deferred(c, FALSE)
    /\ UNCHANGED <<events, registrations, eventID, userEmail, capacity, bookedCount,
                   reading, cancelled, lister, lastCreate, now>>

\* a commit whose increment lands on every event
CommitWrites_EveryEvent(c) ==
    /\ events' = [e \in DOMAIN events |->
                    [events[e] EXCEPT !.bookedCount = @ + txBooked[c]]]
    /\ registrations' = registrations \cup txRegs[c]

\* a commit that writes the counter only
CommitWrites_CounterOnly(c) ==
    /\ events' = [e \in DOMAIN events |->
                    IF e = eventID[c]
                    THEN [events[e] EXCEPT !.bookedCount = @ + txBooked[c]]
                    ELSE events[e]]
    /\ UNCHANGED registrations

\* COMMIT makes the transaction's writes visible, all at once
CommitWrites(c) ==
    /\ events' = [e \in DOMAIN events |->
                    IF e = eventID[c]
                    THEN [events[e] EXCEPT !.bookedCount = @ + txBooked[c]]
                    ELSE events[e]]
    /\ registrations' = registrations \cup txRegs[c]

\* Step 6: tx.Commit(ctx), then return reg, nil
BookCommit(c) ==
    /\ pc[c] = "commit"
    /\ CommitWrites(c)
    /\ tx' = [tx EXCEPT ![c] = "committed"]
    /\ txBooked' = [txBooked EXCEPT ![c] = 0]
    /\ txRegs' = [txRegs EXCEPT ![c] = {}]
    /\ rowLock' = [e \in EventIds |-> IF rowLock[e] = c THEN NoCall ELSE rowLock[e]]
    /\ Return(c, "Ok")
    /\ UNCHANGED <<eventID, userEmail, capacity, bookedCount, reading, otherVars>>

\* a storage fault in one of Book's round trips: Begin fails before there is
\* a transaction; any later statement or the commit fails with err set
BookFault(c) ==
    /\ pc[c] \in {"begin", "lock", "dup", "update", "insert", "commit"}
    /\ FaultsSoFar < MaxFaults
    /\ Return(c, "Failure")
    /\ IF pc[c] = "begin"
       THEN UNCHANGED <<tx, txBooked, txRegs, rowLock>>
       ELSE Deferred(c, FALSE)
    /\ UNCHANGED <<events, registrations, eventID, userEmail, capacity, bookedCount,
                   reading, otherVars>>

\* ------------------------------------------------------------ read queries

\* GetByID, List or ListByEvent sends its query on a pool connection
ReadBegin ==
    /\ PoolHasConn
    /\ reading' = reading + 1
    /\ UNCHANGED <<events, registrations, callVars, tx, rowLock, txBooked, txRegs,
                   otherVars>>

\* the rows are scanned and the connection goes back to the pool
ReadEnd ==
    /\ reading > 0
    /\ reading' = reading - 1
    /\ UNCHANGED <<events, registrations, callVars, tx, rowLock, txBooked, txRegs,
                   otherVars>>

\* ------------------------------------------------------------------- Next

BookStep(c) ==
    \/ BookBegin(c)
    \/ BookLockEvent(c)
    \/ BookCheck(c)
    \/ BookIncrement(c)
    \/ BookInsert(c)
    \/ BookCommit(c)

Next ==
    \/ \E id \in EventIds, n \in RawNames, cap \in RawCapacities : CreateEvent(id, n, cap)
    \/ \E c \in Calls, id \in PathIds, raw \in RawEmails : Register(c, id, raw)
    \/ \E c \in Calls : BookStep(c)
    \/ \E c \in Calls : BookFault(c)

\* the booking system without read traffic
Spec == Init /\ [][Next]_vars

\* ------------------------------------------- the concurrent booking test

\* the unique e-mail of goroutine c in the concurrent booking test
BurstEmail(c) == <<"u", ToString(c), "@", "x", ".", "y">>

\* One event of some capacity with booked_count 0, and every request through
\* Register's validation with its own e-mail, about to call Book.
InitBurst ==
    /\ \E cap \in 1..MaxCapacity :
          events = ("e1" :> [name |-> <<"n">>, capacity |-> cap, bookedCount |-> 0])
    /\ registrations = {}
    /\ pc = [c \in Calls |-> "begin"]
    /\ eventID = [c \in Calls |-> "e1"]
    /\ userEmail = [c \in Calls |-> BurstEmail(c)]
    /\ capacity = [c \in Calls |-> 0]
    /\ bookedCount = [c \in Calls |-> 0]
    /\ result = [c \in Calls |-> "none"]
    /\ tx = [c \in Calls |-> "none"]
    /\ rowLock = [e \in EventIds |-> NoCall]
    /\ txBooked = [c \in Calls |-> 0]
    /\ txRegs = [c \in Calls |-> {}]
    /\ reading = 0
    /\ OtherInit

NextBurst == \E c \in Calls : BookStep(c)

\* the concurrent booking test, without storage faults
SpecBurst == InitBurst /\ [][NextBurst]_vars

\* The goroutine of a request keeps running, and PostgreSQL's lock queue
\* grants a row lock that is free again and again to each of its waiters.
BurstFairness ==
    \A c \in Calls :
        /\ WF_vars(BookStep(c))
        /\ SF_vars(BookLockEvent(c))

SpecBurstFair == SpecBurst /\ BurstFairness

\* ----------------------------------------------- two events and the pool

\* Two events of capacity 1, as two CreateEvent requests leave them.
InitPool ==
    /\ events = [e \in EventIds |-> [name |-> <<"n">>, capacity |-> 1, bookedCount |-> 0]]
    /\ registrations = {}
    /\ pc = [c \in Calls |-> "idle"]
    /\ eventID = [c \in Calls |-> ""]
    /\ userEmail = [c \in Calls |-> <<>>]
    /\ capacity = [c \in Calls |-> 0]
    /\ bookedCount = [c \in Calls |-> 0]
    /\ result = [c \in Calls |-> "none"]
    /\ tx = [c \in Calls |-> "none"]
    /\ rowLock = [e \in EventIds |-> NoCall]
    /\ txBooked = [c \in Calls |-> 0]
    /\ txRegs = [c \in Calls |-> {}]
    /\ reading = 0
    /\ OtherInit

NextPool ==
    \/ \E c \in Calls, id \in PathIds, raw \in RawEmails : Register(c, id, raw)
    \/ \E c \in Calls : BookStep(c)
    \/ \E c \in Calls : BookFault(c)
    \/ ReadBegin
    \/ ReadEnd

\* bookings on two events, with read queries competing for the pool's connections
SpecPool == InitPool /\ [][NextPool]_vars

\* ------------------------------------------------- what the caller is told

StatusCreated == 201
StatusBadRequest == 400
StatusNotFound == 404
StatusConflict == 409

\* the error value EventService.Register returns, as errors.Is can tell it:
\* the three domain errors are returned as they are, a validation error is a
\* fmt.Errorf of its message, any other error is wrapped by fmt.Errorf
ServiceError(outcome) ==
    CASE outcome = "Ok" -> "nil"
      [] outcome = "NotFound" -> "ErrNotFound"
      [] outcome = "Full" -> "ErrEventFull"
      [] outcome = "AlreadyRegistered" -> "ErrAlreadyRegistered"
      [] outcome = "ValidationError" -> "error"
      [] OTHER -> "error"

\* the status EventHandler.Register writes: the switch on the error and its
\* default branch
RegisterStatus(outcome) ==
    IF ServiceError(outcome) = "nil" THEN StatusCreated
    ELSE CASE ServiceError(outcome) = "ErrNotFound" -> StatusNotFound
           [] ServiceError(outcome) = "ErrEventFull" -> StatusConflict
           [] ServiceError(outcome) = "ErrAlreadyRegistered" -> StatusConflict
           [] OTHER -> StatusBadRequest

\* ------------------------------------------------------------ cancellation

\* the request's context is done (r.Context(): the client went away) while
\* Book is running
Cancel(c) ==
    /\ pc[c] \in {"begin", "lock", "dup", "update", "insert", "commit"}
    /\ ~cancelled[c]
    /\ cancelled' = [cancelled EXCEPT ![c] = TRUE]
    /\ UNCHANGED <<events, registrations, callVars, tx, rowLock, txBooked, txRegs,
                   reading, lister, lastCreate, now, createdAt>>

\* the statement that Book sends or waits for returns the context's error:
\* Begin fails before there is a transaction, any later statement or the
\* commit fails with err set
BookCancelled(c) ==
    /\ cancelled[c]
    /\ pc[c] \in {"begin", "lock", "dup", "update", "insert", "commit"}
    /\ Return(c, "Failure")
    /\ IF pc[c] = "begin"
       THEN UNCHANGED <<tx, txBooked, txRegs, rowLock>>
       ELSE Deferred(c, FALSE)
    /\ UNCHANGED <<events, registrations, eventID, userEmail, capacity, bookedCount,
                   reading, otherVars>>

\* Book looks at the context only inside its statements: a statement that
\* was answered before the context was done is followed by Book's own code
\* up to the next statement, which then fails, or up to a return
NextCancel ==
    \/ \E c \in Calls : BookStep(c) /\ (cancelled[c] => pc'[c] = "returned")
    \/ \E c \in Calls : Cancel(c)
    \/ \E c \in Calls : BookCancelled(c)

\* the concurrent booking test with clients that go away
SpecCancel == InitBurst /\ [][NextCancel]_vars

\* ------------------------------------------ EventService.ListRegistrations

\* EventRepository.GetByID as ListRegistrations calls it: one query on a pool
\* connection; a fault is any error other than pgx.ErrNoRows
GetByID(id, fault) ==
    IF fault THEN "error"
    ELSE IF id \notin DOMAIN events THEN "ErrNotFound"
    ELSE "nil"

\* ListRegistrations up to the call of ListByEvent:
\* if _, err := s.events.GetByID(ctx, eventID); err != nil { return nil, ErrNotFound }
ListLookup(id, fault) ==
    /\ lister.pc \in {"idle", "done"}
    /\ PoolHasConn
    /\ lister' = [pc |-> IF GetByID(id, fault) # "nil" THEN "done" ELSE "list",
                  id |-> id,
                  existed |-> id \in DOMAIN events,
                  fault |-> fault,
                  out |-> IF GetByID(id, fault) # "nil" THEN "NotFound" ELSE "none",
                  rows |-> {}]
    /\ UNCHANGED <<events, registrations, callVars, tx, rowLock, txBooked, txRegs,
                   reading, cancelled, lastCreate, now, createdAt>>

\* RegistrationRepository.ListByEvent: the committed registrations of the
\* event, or the wrapped error of a failed query
ListByEvent(fault) ==
    /\ lister.pc = "list"
    /\ PoolHasConn
    /\ lister' = [lister EXCEPT
                     !.pc = "done",
                     !.out = IF fault THEN "Failure" ELSE "Ok",
                     !.rows = IF fault THEN {}
                              ELSE {r \in registrations : r.eventID = lister.id}]
    /\ UNCHANGED <<events, registrations, callVars, tx, rowLock, txBooked, txRegs,
                   reading, cancelled, lastCreate, now, createdAt>>

NextList ==
    \/ \E c \in Calls : BookStep(c)
    \/ \E id \in EventIds, fault \in BOOLEAN : ListLookup(id, fault)
    \/ \E fault \in BOOLEAN : ListByEvent(fault)

\* the concurrent booking test with ListRegistrations requests for the
\* event and for an id that no event has
SpecList == InitBurst /\ [][NextList]_vars

\* ------------------------------------------------------------- the clock

\* time passes: the clock of the server moves on
Tick ==
    /\ now < MaxClock
    /\ now' = now + 1
    /\ UNCHANGED <<events, registrations, callVars, tx, rowLock, txBooked, txRegs,
                   reading, cancelled, lister, lastCreate, createdAt>>

NextClock ==
    \/ \E c \in Calls : BookStep(c)
    \/ Tick

\* the concurrent booking test while the clock runs
SpecClock == InitBurst /\ [][NextClock]_vars

\* what ListByEvent can return for event e: SELECT ... WHERE event_id = $1
\* ORDER BY created_at ASC, every committed registration of the event once,
\* in an order ascending in created_at (rows of equal created_at in any order)
ListOrders(e) ==
    LET rows == {r \in registrations : r.eventID = e}
        n == Cardinality(rows)
    IN
    {seq \in [1..n -> rows] :
        /\ \A i, j \in 1..n : i # j => seq[i] # seq[j]
        /\ \A i, j \in 1..n : i < j => createdAt[seq[i].id] <= createdAt[seq[j].id]}

\* ------------------------------------------- the row lock slipped past

\* The coordinator the specification's defence-in-depth clauses provide for,
\* not the one of database.go: the lock of step 1 is not taken, and the
\* checks of steps 2 and 3 may be left out. The tables, their constraints,
\* the writes, the commit and the deferred rollback are those of the code.

\* Step 1 without FOR UPDATE, the code change DESIGN.md names ("a future
\* code change accidentally removes the FOR UPDATE"): a plain SELECT reads the
\* committed row and waits for no lock
BookSelectEvent(c) ==
    LET e == eventID[c] IN
    /\ pc[c] = "lock"
    /\ IF e \notin DOMAIN events
       THEN /\ Return(c, "NotFound")
            /\ Deferred(c, FALSE)
            /\ UNCHANGED <<capacity, bookedCount>>
       ELSE /\ capacity' = [capacity EXCEPT ![c] = events[e].capacity]
            /\ bookedCount' = [bookedCount EXCEPT ![c] = events[e].bookedCount + txBooked[c]]
            /\ pc' = [pc EXCEPT ![c] = "dup"]
            /\ UNCHANGED <<result, tx, txBooked, txRegs, rowLock>>
    /\ UNCHANGED <<events, registrations, eventID, userEmail, reading, otherVars>>

\* Steps 2 and 3 left out: neither the duplicate check nor the capacity
\* guard is made, the request goes on to its UPDATE
BookSkipChecks(c) ==
    /\ pc[c] = "dup"
    /\ pc' = [pc EXCEPT ![c] = "update"]
    /\ UNCHANGED <<events, registrations, eventID, userEmail, capacity, bookedCount,
                   result, tx, rowLock, txBooked, txRegs, reading, otherVars>>

\* one event, every request about to call Book for it, two e-mails
InitBypass ==
    /\ \E cap \in 1..MaxCapacity :
          events = ("e1" :> [name |-> <<"n">>, capacity |-> cap, bookedCount |-> 0])
    /\ registrations = {}
    /\ pc = [c \in Calls |-> "begin"]
    /\ eventID = [c \in Calls |-> "e1"]
    /\ userEmail \in [Calls -> {EmA, EmB}]
    /\ capacity = [c \in Calls |-> 0]
    /\ bookedCount = [c \in Calls |-> 0]
    /\ result = [c \in Calls |-> "none"]
    /\ tx = [c \in Calls |-> "none"]
    /\ rowLock = [e \in EventIds |-> NoCall]
    /\ txBooked = [c \in Calls |-> 0]
    /\ txRegs = [c \in Calls |-> {}]
    /\ reading = 0
    /\ OtherInit

\* Book without its row lock; the checks are made
NextUnlocked ==
    \/ \E c \in Calls : BookBegin(c)
    \/ \E c \in Calls : BookSelectEvent(c)
    \/ \E c \in Calls : BookCheck(c)
    \/ \E c \in Calls : BookIncrement(c)
    \/ \E c \in Calls : BookInsert(c)
    \/ \E c \in Calls : BookCommit(c)

\* the requests slip past the lock: the uniqueness constraint is the arbiter
SpecUnlocked == InitBypass /\ [][NextUnlocked]_vars

\* Book without its row lock and with its checks made or left out
NextBypass ==
    \/ \E c \in Calls : BookBegin(c)
    \/ \E c \in Calls : BookSelectEvent(c)
    \/ \E c \in Calls : BookCheck(c)
    \/ \E c \in Calls : BookSkipChecks(c)
    \/ \E c \in Calls : BookIncrement(c)
    \/ \E c \in Calls : BookInsert(c)
    \/ \E c \in Calls : BookCommit(c)

\* only the table constraints are left
SpecBypass == InitBypass /\ [][NextBypass]_vars

\* ------------------------------------------------------------ properties

\* the committed registrations of event e
RegsOf(e) == {r \in registrations : r.eventID = e}

\* the requests that reached Book
Booking == {c \in Calls : pc[c] # "idle" /\ result[c] # "ValidationError"}

\* the requests for event e that returned `outcome`
Returned(e, outcome) ==
    {c \in Booking : eventID[c] = e /\ pc[c] = "returned" /\ result[c] = outcome}

\* C1: in every reachable state every event has 0 <= bookedCount <= capacity.
C1_BookedWithinCapacity ==
    \A e \in DOMAIN events :
        /\ 0 <= events[e].bookedCount
        /\ events[e].bookedCount <= events[e].capacity

\* an event filled to its capacity has turned a request away
C1_Witness ==
    \E e \in DOMAIN events :
        /\ events[e].bookedCount = events[e].capacity
        /\ Returned(e, "Full") # {}

\* C2: in every committed state the number of registrations of an event
\* equals its bookedCount.
C2_CountEqualsBooked ==
    \A e \in DOMAIN events : Cardinality(RegsOf(e)) = events[e].bookedCount

\* one booking committed, one rolled back by a fault, one with its two writes
\* still uncommitted, all on one event
C2_Witness ==
    \E e \in DOMAIN events :
        /\ events[e].bookedCount = 1
        /\ Returned(e, "Ok") # {}
        /\ \E d \in Returned(e, "Failure") : tx[d] = "rolledback"
        /\ \E x \in Calls : eventID[x] = e /\ pc[x] = "commit" /\ txBooked[x] = 1

\* C3: at most one registration for any pair (eventId, attendeeKey).
C3_UniqueRegistration ==
    \A r1, r2 \in registrations :
        (r1.eventID = r2.eventID /\ r1.userEmail = r2.userEmail) => r1 = r2

\* two requests race for the same pair: one is about to commit its
\* registration while the other waits for the row lock
C3_Witness ==
    \E c, d \in Calls :
        /\ c # d
        /\ eventID[c] = eventID[d] /\ userEmail[c] = userEmail[d]
        /\ pc[c] = "commit" /\ txRegs[c] # {}
        /\ pc[d] = "lock"

\* C4: the requests that return Ok for an event never outnumber its capacity
\* (bookedCount starts at 0), and no two of them carry the same attendee key.
C4_OkWithinCapacity ==
    \A e \in DOMAIN events :
        /\ Cardinality(Returned(e, "Ok")) <= events[e].capacity - 0
        /\ \A c, d \in Returned(e, "Ok") : c # d => userEmail[c] # userEmail[d]

\* an event of capacity 2 has answered Ok twice, to two attendees, and has
\* turned the third request away
C4_Witness ==
    \E e \in DOMAIN events :
        /\ events[e].capacity = 2
        /\ Cardinality(Returned(e, "Ok")) = 2
        /\ Cardinality(Returned(e, "AlreadyRegistered")) = 1

\* no request of the concurrent booking test can take a step
BurstQuiescent == \A c \in Calls : ~ENABLED BookStep(c)

\* C5: with capacity C, bookedCount 0 and N >= C concurrent requests with N
\* distinct keys, all N return, exactly C with Ok and N-C with Full, and the
\* final bookedCount is C.
C5_BurstOutcome ==
    BurstQuiescent =>
        /\ \A c \in Calls : pc[c] = "returned"
        /\ Cardinality(Returned("e1", "Ok")) = events["e1"].capacity
        /\ Cardinality(Returned("e1", "Full")) = NCalls - events["e1"].capacity
        /\ events["e1"].bookedCount = events["e1"].capacity

\* C6: a request that has returned (Full and AlreadyRegistered included)
\* holds no event lock and no open transaction.
C6_ReturnedHoldsNothing ==
    \A c \in Calls :
        pc[c] = "returned" =>
            /\ tx[c] # "open"
            /\ \A e \in EventIds : rowLock[e] # c

\* the registrations of the pair (e, k)
RegsOfPair(e, k) == {r \in registrations : r.eventID = e /\ r.userEmail = k}

\* C7: of two requests with the same event and attendee key at most one
\* returns Ok; once one has, the other returns AlreadyRegistered, and exactly
\* one registration of the pair exists, counted once in bookedCount.
C7_SamePairOnce ==
    \A c, d \in Booking :
        (c # d /\ eventID[c] = eventID[d] /\ userEmail[c] = userEmail[d]
              /\ pc[c] = "returned" /\ result[c] = "Ok") =>
            /\ result[d] # "Ok"
            /\ tx[c] = "committed" /\ rowLock[eventID[c]] # c
            /\ (pc[d] = "returned" /\ result[d] \notin {"Failure", "NotFound"})
                  => result[d] = "AlreadyRegistered"
            /\ Cardinality(RegsOfPair(eventID[c], userEmail[c])) = 1
            /\ (\A x \in Returned(eventID[c], "Ok") : x = c)
                  => events[eventID[c]].bookedCount = 1

\* the same pair was requested twice: Ok, then AlreadyRegistered
C7_Witness ==
    \E c, d \in Booking :
        /\ c # d
        /\ eventID[c] = eventID[d] /\ userEmail[c] = userEmail[d]
        /\ pc[c] = "returned" /\ result[c] = "Ok"
        /\ pc[d] = "returned" /\ result[d] = "AlreadyRegistered"
        /\ events[eventID[c]].bookedCount = 1

\* C8: under fair scheduling and without storage faults every request that
\* waits for an event's lock is eventually granted it and returns.
C8_EveryWaiterReturns ==
    \A c \in Calls : (pc[c] = "lock") ~> (pc[c] = "returned")

\* the pool connections held by the transactions of requests on events other
\* than request c's
ConnsOfOtherEvents(c) ==
    Cardinality({d \in Calls \ {c} : tx[d] = "open" /\ eventID[d] # eventID[c]})

\* C9 (as stated): a request is never blocked because of the activity of
\* requests on another event: when it waits for a row lock, the holder is a
\* request on its own event, and when it waits for a connection, it would
\* wait as well without the requests on other events.
C9_NeverBlockedByOtherEvent ==
    \A c \in Calls :
        /\ (pc[c] = "lock" /\ ~ENABLED BookLockEvent(c)) =>
               \E d \in Calls \ {c} :
                   rowLock[eventID[c]] = d /\ eventID[d] = eventID[c]
        /\ (pc[c] = "begin" /\ ~ENABLED BookBegin(c)) =>
               ConnsInUse - ConnsOfOtherEvents(c) >= MaxConns

\* a transaction other than c's, on c's event, that c's next statement waits
\* for: it holds the event's row lock or an uncommitted row with c's key
OwnEventBlockers(c) ==
    {d \in Calls \ {c} :
        /\ eventID[d] = eventID[c] /\ tx[d] = "open"
        /\ \/ rowLock[eventID[c]] = d
           \/ \E r \in txRegs[d] : KeyMatch(r, eventID[c], userEmail[c])}

\* request d, on another event than request c, takes a step
StepOfOtherEvent(c, d) ==
    /\ d # c /\ pc[d] # "idle" /\ eventID[d] # eventID[c]
    /\ pc'[d] # pc[d]

\* C9 (amended): a request that has its connection neither blocks nor fails
\* because of requests on other events, and its outcome does not depend on
\* them: whenever it cannot take its next step, a transaction on its own
\* event holds the row lock or the key it waits for, and a step of a request
\* on another event changes neither where it stands, nor what it read, nor
\* its event's row, registrations and lock, nor whether it can proceed.
C9_IsolatedOnceConnected ==
    [][\A c \in Calls :
          (tx[c] = "open" /\ pc[c] # "returned") =>
              /\ ~ENABLED BookStep(c) => OwnEventBlockers(c) # {}
              /\ \A d \in Calls :
                    StepOfOtherEvent(c, d) =>
                        /\ pc'[c] = pc[c] /\ result'[c] = result[c] /\ tx'[c] = tx[c]
                        /\ capacity'[c] = capacity[c] /\ bookedCount'[c] = bookedCount[c]
                        /\ txBooked'[c] = txBooked[c] /\ txRegs'[c] = txRegs[c]
                        /\ rowLock'[eventID[c]] = rowLock[eventID[c]]
                        /\ eventID[c] \in DOMAIN events =>
                               events'[eventID[c]] = events[eventID[c]]
                        /\ {r \in registrations' : r.eventID = eventID[c]}
                               = {r \in registrations : r.eventID = eventID[c]}
                        /\ (ENABLED BookStep(c))' = ENABLED BookStep(c)]_vars

\* a request waits for the free lock of its event while a transaction on
\* the other event holds that event's lock
C9_Witness ==
    \E c, d \in Calls :
        /\ pc[c] = "lock" /\ rowLock[eventID[c]] = NoCall
        /\ eventID[d] # eventID[c] /\ eventID[d] \in EventIds
        /\ rowLock[eventID[d]] = d

\* C10: the counter increment and the registration insert of a booking become
\* visible in the same step: every step changes an event's committed
\* bookedCount by exactly the number of its registrations that appear.
C10_AtomicVisibility ==
    [][\A e \in DOMAIN events :
          events'[e].bookedCount - events[e].bookedCount
              = Cardinality({r \in registrations' : r.eventID = e})
                  - Cardinality(RegsOf(e))]_vars

\* one booking is committed and visible while another transaction's two
\* writes are still uncommitted
C10_Witness ==
    \E c, d \in Calls :
        /\ c # d
        /\ tx[c] = "committed" /\ \E r \in registrations : r.id = c
        /\ pc[d] = "commit" /\ txBooked[d] = 1 /\ txRegs[d] # {}

\* request c holds the row lock of its event and a statement of its fails
FaultUnderLock(c) ==
    /\ pc[c] \in {"dup", "update", "insert", "commit"}
    /\ pc'[c] = "returned"
    /\ result'[c] = "Failure"

\* C11: a storage fault at a step after the lock is taken (duplicate check,
\* update, insert, commit) makes the request return a failure with its whole
\* transaction rolled back: the committed rows stay as they were, bookedCount
\* is what the request read under the lock, no registration of the request
\* exists, and the request keeps neither transaction nor lock, so that a
\* retry can succeed.
C11_FaultRollsBack ==
    [][\A c \in Calls :
          FaultUnderLock(c) =>
              /\ events' = events
              /\ registrations' = registrations
              /\ events'[eventID[c]].bookedCount = bookedCount[c]
              /\ \A r \in registrations' : r.id # c
              /\ tx'[c] = "rolledback"
              /\ txBooked'[c] = 0 /\ txRegs'[c] = {}
              /\ \A e \in EventIds : rowLock'[e] # c]_vars

\* a request failed by a fault under the lock was rolled back, and a later
\* request with the same event and e-mail returned Ok
C11_Witness ==
    \E c, d \in Calls :
        /\ c < d
        /\ eventID[c] = eventID[d] /\ userEmail[c] = userEmail[d]
        /\ pc[c] = "returned" /\ result[c] = "Failure"
        /\ tx[c] = "rolledback" /\ capacity[c] > 0
        /\ pc[d] = "returned" /\ result[d] = "Ok"
        /\ \E r \in registrations : r.id = d

\* request d repeats request c: the same event and e-mail, sent later, and
\* it has not read the event yet
Retries(d, c) ==
    /\ c < d
    /\ pc[d] \in {"begin", "lock"}
    /\ eventID[d] = eventID[c] /\ userEmail[d] = userEmail[c]

\* what Book answers on the committed rows for event e and e-mail k
AnswerFor(e, k) ==
    IF e \notin DOMAIN events THEN "NotFound"
    ELSE CheckOutcome(Cardinality(RegsOfPair(e, k)),
                      events[e].capacity, events[e].bookedCount)

\* C12: a request that returned NotFound, Full or AlreadyRegistered changed
\* nothing, and the same request sent again returns the same outcome: the
\* committed rows still give that answer (no event being created in
\* between), and the repeated request is not kept waiting for the row lock
\* by a request that has returned.
C12_RefusalRepeats ==
    \A c \in Calls :
        (pc[c] = "returned"
              /\ result[c] \in {"NotFound", "Full", "AlreadyRegistered"}) =>
            /\ \A r \in registrations : r.id # c
            /\ txBooked[c] = 0 /\ txRegs[c] = {}
            /\ \A d \in Calls :
                  (Retries(d, c) /\ eventID[d] \in DOMAIN events
                        /\ result[c] # "NotFound") =>
                      LET holder == rowLock[eventID[d]] IN
                      /\ holder # NoCall => pc[holder] # "returned"
                      /\ holder = NoCall =>
                            AnswerFor(eventID[d], userEmail[d]) = result[c]
            /\ \A d \in Calls :
                  (Retries(d, c) /\ eventID[d] \notin DOMAIN events) =>
                      AnswerFor(eventID[d], userEmail[d]) = result[c]

\* C13: a request for an event id that does not exist returns NotFound (or
\* the failure of a storage fault), keeps no transaction and no lock after
\* it has returned, and creates or alters no event and no registration.
C13_NotFoundTouchesNothing ==
    [][\A c \in Calls :
          /\ (pc[c] = "lock" /\ pc'[c] # "lock"
                 /\ eventID[c] \notin DOMAIN events) =>
                 /\ pc'[c] = "returned"
                 /\ result'[c] \in {"NotFound", "Failure"}
          /\ (pc[c] # "returned" /\ pc'[c] = "returned"
                 /\ result'[c] = "NotFound") =>
                 /\ eventID[c] \notin DOMAIN events
                 /\ events' = events
                 /\ registrations' = registrations
                 /\ tx[c] = "open" /\ tx'[c] = "rolledback"
                 /\ rowLock' = rowLock
                 /\ \A e \in EventIds : rowLock'[e] # c
                 /\ txBooked' = txBooked /\ txRegs' = txRegs]_vars

\* a request for a missing event has returned NotFound, rolled back, while
\* a booking on an existing event holds that event's lock
C13_Witness ==
    \E c, d \in Calls :
        /\ pc[c] = "returned" /\ result[c] = "NotFound"
        /\ tx[c] = "rolledback"
        /\ eventID[c] \notin DOMAIN events
        /\ pc[d] = "insert" /\ rowLock[eventID[d]] = d

\* C14: a request whose context was cancelled while it waited for the row
\* lock or held it, and that did not commit, has its transaction rolled back
\* when it returns: it holds no lock and no open transaction, no write of
\* its is visible, and the invariants on the committed rows hold.
C14_CancelledRolledBack ==
    /\ \A c \in Calls :
          (cancelled[c] /\ pc[c] = "returned" /\ result[c] # "Ok") =>
              /\ tx[c] \in {"none", "rolledback"}
              /\ \A e \in EventIds : rowLock[e] # c
              /\ txBooked[c] = 0 /\ txRegs[c] = {}
              /\ \A r \in registrations : r.id # c
    /\ \A e \in DOMAIN events :
          /\ events[e].bookedCount <= events[e].capacity
          /\ Cardinality(RegsOf(e)) = events[e].bookedCount

\* the INSERT of request c is rejected by unique_registration
UniqueRejects(c) ==
    /\ pc[c] = "insert"
    /\ pc'[c] = "returned"
    /\ \E r \in RegsSeenBy(c) : KeyMatch(r, eventID[c], userEmail[c])

C16_FailureToldApart ==
    \A c \in Calls :
        pc[c] = "returned" =>
            /\ RegisterStatus(result[c]) = StatusBadRequest
                  => result[c] = "ValidationError"
            /\ \A d \in Calls :
                  (pc[d] = "returned" /\ result[c] = "Failure"
                        /\ result[d] \in {"ValidationError", "NotFound", "Full",
                                          "AlreadyRegistered"}) =>
                      /\ ServiceError(result[c]) # ServiceError(result[d])
                      /\ RegisterStatus(result[c]) # RegisterStatus(result[d])

\* C17: ListRegistrations returns NotFound exactly when the event was absent
\* at its lookup, a storage fault in the lookup is not reported as NotFound,
\* and for an existing event it returns registrations of that event only,
\* all of them committed.
C17_NotFoundOnlyWhenAbsent ==
    lister.pc = "done" =>
        /\ lister.out = "NotFound" <=> (~lister.existed /\ ~lister.fault)
        /\ lister.out = "Ok" =>
              /\ lister.existed
              /\ lister.rows \subseteq RegsOf(lister.id)

\* the name has a character that is not a space
NonBlank(name) == \E i \in 1..Len(name) : name[i] # " "

\* C18: CreateEvent succeeds only for a capacity in 1..100000 with a
\* non-empty name, and then a new event with bookedCount 0 and the requested
\* capacity exists and no other event changed; for any other capacity or an
\* empty name it returns a validation error and no event is created.
C18_CreateEventContract ==
    [][lastCreate' # lastCreate =>
          LET q == lastCreate' IN
          IF q.capacity >= 1 /\ q.capacity <= CapacityCeiling /\ NonBlank(q.name)
          THEN IF Len(TrimSpace(q.name)) <= MaxNameLen
               THEN /\ q.out = "Ok"
                    /\ q.id \notin DOMAIN events
                    /\ DOMAIN events' = DOMAIN events \cup {q.id}
                    /\ events'[q.id].bookedCount = 0
                    /\ events'[q.id].capacity = q.capacity
                    /\ \A e \in DOMAIN events : events'[e] = events[e]
               ELSE q.out = "Failure" /\ events' = events
          ELSE q.out = "ValidationError" /\ events' = events]_vars

\* an event of the largest capacity was created after another event
C18_Witness ==
    /\ lastCreate.out = "Ok"
    /\ lastCreate.capacity = CapacityCeiling
    /\ lastCreate.id = "e2"
    /\ events["e2"].capacity = CapacityCeiling /\ events["e2"].bookedCount = 0
    /\ "e1" \in DOMAIN events

\* one "@" with something before it and a "." after it
WellFormed(email) ==
    \E i \in 2..Len(email) :
        /\ email[i] = "@"
        /\ \A j \in 1..Len(email) : email[j] = "@" => j = i
        /\ \E j \in (i + 1)..Len(email) : email[j] = "."

\* C19: a Register request with an empty or malformed e-mail or an empty
\* event id is answered with a validation error before a transaction is
\* begun or a lock taken, and leaves every event, registration, transaction
\* and lock as it was; only a well-formed request goes on to Book.
C19_MalformedRejectedFirst ==
    [][\A c \in Calls :
          (pc[c] = "idle" /\ pc'[c] # "idle") =>
              /\ tx[c] = "none" /\ tx' = tx
              /\ rowLock' = rowLock
              /\ events' = events /\ registrations' = registrations
              /\ txBooked' = txBooked /\ txRegs' = txRegs
              /\ IF result'[c] = "ValidationError"
                 THEN pc'[c] = "returned"
                 ELSE /\ pc'[c] = "begin"
                      /\ WellFormed(userEmail'[c])
                      /\ eventID'[c] # ""]_vars

\* a request was turned away for its input while a booking holds its
\* event's lock with both writes uncommitted
C19_Witness ==
    \E c, d \in Calls :
        /\ pc[c] = "returned" /\ result[c] = "ValidationError"
        /\ tx[c] = "none"
        /\ pc[d] = "commit" /\ rowLock[eventID[d]] = d /\ txRegs[d] # {}
        /\ c > d

\* request c is between the grant of its row lock and the end of its
\* transaction
InUnit(c) ==
    /\ tx[c] = "open"
    /\ \/ pc[c] \in {"dup", "update", "insert", "commit"}
       \/ pc[c] = "returned" /\ capacity[c] > 0

\* C20: no two requests for the same event are at the same time between the
\* grant of the row lock and the end (commit or rollback) of their
\* transaction, and a request reads capacity and bookedCount in a step that
\* no other request's transaction on that event spans.
C20_OneUnitPerEvent ==
    [][/\ \A c, d \in Calls :
             (c # d /\ eventID'[c] = eventID'[d]) =>
                 ~(InUnit(c)' /\ InUnit(d)')
       /\ \A c \in Calls :
             (pc[c] = "lock" /\ pc'[c] = "dup") =>
                 /\ \A d \in Calls \ {c} :
                        eventID[d] = eventID[c] => ~InUnit(d) /\ ~InUnit(d)'
                 /\ capacity'[c] = events[eventID[c]].capacity
                 /\ bookedCount'[c] = events[eventID[c]].bookedCount]_vars

\* one request is inside its transaction on an event, with its increment
\* uncommitted, while two others wait for the same event's row lock
C20_Witness ==
    \E c, d, x \in Calls :
        /\ c # d /\ d # x /\ c # x
        /\ eventID[c] = eventID[d] /\ eventID[d] = eventID[x]
        /\ pc[c] = "insert" /\ txBooked[c] = 1 /\ InUnit(c)
        /\ pc[d] = "lock" /\ pc[x] = "lock"
        /\ tx[d] = "open" /\ tx[x] = "open"

\* the sequential reference: one reserve call executed alone on the rows
\* (ev, regs): check membership, then check capacity, then increment and
\* insert
SeqReserve(ev, regs, c, e, k) ==
    IF e \notin DOMAIN ev
    THEN [out |-> "NotFound", ev |-> ev, regs |-> regs]
    ELSE IF \E r \in regs : r.eventID = e /\ r.userEmail = k
    THEN [out |-> "AlreadyRegistered", ev |-> ev, regs |-> regs]
    ELSE IF ev[e].bookedCount >= ev[e].capacity
    THEN [out |-> "Full", ev |-> ev, regs |-> regs]
    ELSE [out |-> "Ok",
          ev |-> [ev EXCEPT ![e].bookedCount = @ + 1],
          regs |-> regs \cup {[id |-> c, eventID |-> e, userEmail |-> k]}]

\* request c returns an outcome of Book other than a storage failure
Answers(c) ==
    /\ pc[c] \notin {"idle", "returned"}
    /\ pc'[c] = "returned"
    /\ result'[c] \in {"Ok", "Full", "AlreadyRegistered", "NotFound"}

\* C21: reserve is linearisable per event: every request that returns an
\* outcome returns what the sequential reference returns on the committed
\* rows, which for its event are still what the request read when it was
\* granted the lock, and it leaves the committed rows as the reference does.
\* The requests take effect one at a time, in the order of their lock grants.
C21_LinearisablePerEvent ==
    [][\A c \in Calls :
          Answers(c) =>
              LET ref == SeqReserve(events, registrations, c,
                                    eventID[c], userEmail[c])
              IN
              /\ result'[c] = ref.out
              /\ events' = ref.ev
              /\ registrations' = ref.regs
              /\ eventID[c] \in DOMAIN events =>
                    /\ bookedCount[c] = events[eventID[c]].bookedCount
                    /\ capacity[c] = events[eventID[c]].capacity]_vars

\* on an event of capacity 1 one request was answered Ok, then a second
\* attendee Full, and a request for a missing event NotFound
C21_Witness ==
    \E c, d, x \in Calls :
        /\ eventID[c] = eventID[d] /\ userEmail[c] # userEmail[d]
        /\ eventID[c] \in DOMAIN events
        /\ events[eventID[c]].capacity = 1
        /\ pc[c] = "returned" /\ result[c] = "Ok"
        /\ pc[d] = "returned" /\ result[d] = "Full"
        /\ pc[x] = "returned" /\ result[x] = "NotFound"

\* C22: no gap between check and use: when a request performs its
\* increment, the stored bookedCount and capacity of its event are the
\* values it read under the lock and checked, so the increment takes the
\* counter from the checked value, below capacity, to that value plus 1.
C22_IncrementFromCheckedValue ==
    [][\A c \in Calls :
          (pc[c] = "update" /\ pc'[c] = "insert") =>
              LET e == eventID[c] IN
              /\ events[e].bookedCount = bookedCount[c]
              /\ events[e].capacity = capacity[c]
              /\ bookedCount[c] < capacity[c]
              /\ txBooked[c] = 0 /\ txBooked'[c] = 1
              /\ \A d \in Calls \ {c} : eventID[d] = e => txBooked[d] = 0]_vars

\* the second booking of an event has incremented the counter it read as 1
\* under the lock, while another request waits for that lock
C22_Witness ==
    \E c, d \in Calls :
        /\ c # d /\ eventID[c] = eventID[d]
        /\ pc[c] = "insert" /\ bookedCount[c] = 1 /\ txBooked[c] = 1
        /\ events[eventID[c]].bookedCount = 1
        /\ pc[d] = "lock" /\ tx[d] = "open"

\* C23: the membership check precedes the capacity check: a request whose
\* attendee already holds a registration of the event is answered
\* AlreadyRegistered, also when the event is full, and Full is answered only
\* when the attendee is not registered and bookedCount >= capacity.
C23_MembershipBeforeCapacity ==
    [][\A c \in Calls :
          (pc[c] = "dup" /\ pc'[c] # "dup") =>
              LET e == eventID[c]
                  member == RegsOfPair(e, userEmail[c]) # {}
                  full == events[e].bookedCount >= events[e].capacity
              IN
              /\ member => result'[c] \in {"AlreadyRegistered", "Failure"}
              /\ result'[c] = "AlreadyRegistered" => member
              /\ result'[c] = "Full" => (~member /\ full)
              /\ (~member /\ full) => result'[c] \in {"Full", "Failure"}]_vars

\* a registered attendee asked again when the event was full and was
\* answered AlreadyRegistered
C23_Witness ==
    \E c \in Calls :
        /\ pc[c] = "returned" /\ result[c] = "AlreadyRegistered"
        /\ bookedCount[c] >= capacity[c] /\ capacity[c] > 0
        /\ events[eventID[c]].bookedCount = events[eventID[c]].capacity

\* request c returns Ok in this step
ReturnsOk(c) ==
    /\ pc[c] # "returned"
    /\ pc'[c] = "returned"
    /\ result'[c] = "Ok"

\* C24: only a request that returns Ok changes a bookedCount or adds a
\* registration, and it raises the bookedCount of its event by exactly 1 and
\* adds exactly one registration, its own; the capacity of an event never
\* changes, no bookedCount decreases, and no registration is modified or
\* removed.
C24_OnlyOkChangesLedger ==
    [][/\ \A e \in DOMAIN events :
             /\ e \in DOMAIN events'
             /\ events'[e].capacity = events[e].capacity
             /\ events'[e].bookedCount >= events[e].bookedCount
       /\ registrations \subseteq registrations'
       /\ ((\E e \in DOMAIN events : events'[e] # events[e])
               \/ registrations' # registrations)
             => \E c \in Calls : ReturnsOk(c)
       /\ \A c \in Calls :
             ReturnsOk(c) =>
                 /\ events' = [events EXCEPT ![eventID[c]].bookedCount = @ + 1]
                 /\ registrations' \ registrations =
                        {[id |-> c, eventID |-> eventID[c],
                          userEmail |-> userEmail[c]]}]_vars

\* one request was answered Ok and is counted once, a second was failed by a
\* storage fault after its increment, a third was turned away for its input
C24_Witness ==
    \E c, d, x \in Calls :
        /\ pc[c] = "returned" /\ result[c] = "Ok"
        /\ events[eventID[c]].bookedCount = 1
        /\ Cardinality(registrations) = 1
        /\ eventID[d] = eventID[c]
        /\ pc[d] = "returned" /\ result[d] = "Failure" /\ capacity[d] > 0
        /\ pc[x] = "returned" /\ result[x] = "ValidationError"

\* C25: a step of a reserve call on one event, whatever the call returns,
\* leaves the capacity, the bookedCount, the registrations and the row lock
\* of every other event unchanged.
C25_OtherEventsUntouched ==
    [][\A c \in Calls :
          (pc[c] \notin {"idle", "returned"} /\ pc'[c] # pc[c]) =>
              \A e \in EventIds \ {eventID[c]} :
                  /\ e \in DOMAIN events =>
                        (e \in DOMAIN events' /\ events'[e] = events[e])
                  /\ {r \in registrations' : r.eventID = e} = RegsOf(e)
                  /\ rowLock'[e] = rowLock[e]]_vars

\* a booking on one event has committed while a booking on the other event
\* holds that event's lock with its writes uncommitted
C25_Witness ==
    \E c, d \in Calls :
        /\ eventID[c] # eventID[d]
        /\ pc[c] = "returned" /\ result[c] = "Ok"
        /\ events[eventID[c]].bookedCount = 1
        /\ pc[d] = "commit" /\ rowLock[eventID[d]] = d
        /\ events[eventID[d]].bookedCount = 0 /\ RegsOf(eventID[d]) = {}

\* C26: with the row lock removed and the checks of Book made or left out,
\* the tables still hold their invariants: bookedCount stays within 0 and
\* capacity, no pair of event and e-mail is registered twice, the counter
\* equals the number of registrations, and a request whose write the table
\* rejected has committed nothing and holds nothing.
C26_StoreKeepsInvariants ==
    /\ \A e \in DOMAIN events :
          /\ events[e].bookedCount \in 0..events[e].capacity
          /\ Cardinality(RegsOf(e)) = events[e].bookedCount
          /\ \A r \in RegsOf(e) : RegsOfPair(e, r.userEmail) = {r}
    /\ \A c \in Calls :
          (pc[c] = "returned" /\ result[c] = "Failure") =>
              /\ tx[c] = "rolledback"
              /\ txBooked[c] = 0 /\ txRegs[c] = {}
              /\ \A r \in registrations : r.id # c
              /\ \A e \in EventIds : rowLock[e] # c

\* a full event of capacity 1: a second request read the counter as 0
\* without the lock, and its UPDATE was rejected by the table
C26_Witness ==
    \E c \in Calls :
        /\ pc[c] = "returned" /\ result[c] = "Failure"
        /\ capacity[c] = 1 /\ bookedCount[c] = 0
        /\ events["e1"].bookedCount = 1 /\ events["e1"].capacity = 1
        /\ \E d \in Calls \ {c} : pc[d] = "returned" /\ result[d] = "Ok"

\* the transactions of the reserve calls that have not returned
InFlightTx == Cardinality({c \in Calls : tx[c] = "open" /\ pc[c] # "returned"})

\* C27: a read query (GetByID, List, ListByEvent) never waits for a row
\* lock: it starts whenever the pool has a connection, whoever holds the
\* row locks; and reserve calls that have completed do not keep it waiting:
\* it starts whenever the read queries and the reserve calls still in
\* flight leave a connection of the pool free.
C27_ReadsNeverWaitForReserve ==
    /\ PoolHasConn => ENABLED ReadBegin
    /\ reading + InFlightTx < MaxConns => ENABLED ReadBegin

\* the place of a committed registration in the commit order of its event:
\* the counter its request read under the lock, the number of bookings of
\* the event committed before it
CommitRank(r) == bookedCount[r.id]

\* C28 (as stated): ListByEvent returns the registrations of an event in
\* the order in which their requests committed.
C28_ListedInCommitOrder ==
    \A e \in DOMAIN events :
        \A seq \in ListOrders(e) :
            \A i, j \in DOMAIN seq :
                i < j => CommitRank(seq[i]) < CommitRank(seq[j])

\* C28 (amended): created_at is non-decreasing in the commit order of an
\* event, and ListByEvent returns the registrations ascending in created_at:
\* two registrations with different created_at are listed in commit order.
C28_CreatedAtFollowsCommitOrder ==
    \A e \in DOMAIN events :
        /\ \A r1, r2 \in RegsOf(e) :
              CommitRank(r1) < CommitRank(r2)
                  => createdAt[r1.id] <= createdAt[r2.id]
        /\ ListOrders(e) # {}
        /\ \A seq \in ListOrders(e) :
              \A i, j \in DOMAIN seq :
                  (i < j /\ createdAt[seq[i].id] # createdAt[seq[j].id])
                      => CommitRank(seq[i]) < CommitRank(seq[j])

\* two registrations of one event were committed at different times of the
\* clock
C28_Witness ==
    \E r1, r2 \in RegsOf("e1") :
        /\ CommitRank(r1) = 0 /\ CommitRank(r2) = 1
        /\ createdAt[r1.id] = 1 /\ createdAt[r2.id] = 2
        /\ Cardinality(ListOrders("e1")) = 1

\* C29: referential integrity: every registration, committed or written by
\* an open transaction, names an existing event, and no request for a
\* missing event gets past Book's first statement towards its INSERT.
C29_RegistrationsNameEvents ==
    /\ \A r \in registrations : r.eventID \in DOMAIN events
    /\ \A c \in Calls :
          /\ \A r \in txRegs[c] : r.eventID \in DOMAIN events
          /\ pc[c] \in {"dup", "update", "insert", "commit"}
                => eventID[c] \in DOMAIN events

\* a registration of the one existing event is committed, and a request
\* for an id that no event has was answered NotFound
C29_Witness ==
    \E c \in Calls :
        /\ pc[c] = "returned" /\ result[c] = "NotFound"
        /\ eventID[c] = "e2" /\ "e2" \notin DOMAIN events
        /\ \E r \in registrations : r.eventID = "e1"

\* the requests that have begun their transaction in Book and not returned
BegunNotReturned ==
    {c \in Calls : pc[c] \in {"lock", "dup", "update", "insert", "commit"}}

\* C30: no connection leak: the connections checked out by transactions are
\* as many as the Book calls that have begun and not yet returned, within
\* the pool's limit, and none is checked out once every call has returned.
C30_NoConnectionLeak ==
    /\ Cardinality({c \in Calls : tx[c] = "open"}) = Cardinality(BegunNotReturned)
    /\ Cardinality({c \in Calls : tx[c] = "open"}) <= MaxConns
    /\ (\A c \in Calls : pc[c] = "returned") =>
           Cardinality({c \in Calls : tx[c] = "open"}) = 0

\* ------------------------------------------- the same attendee, respelled

\* user_email of the body of request c as decoded by the handler: the first
\* two requests spell one address differently, the third is another attendee
SentEmail(c) ==
    CASE c = 1 -> EmA
      [] c = 2 -> <<" ", "A", "@", "x", ".", "y", " ">>
      [] OTHER -> <<"B", "@", "x", ".", "y", " ">>

\* One event of some capacity with booked_count 0 and no request yet.
InitSent ==
    /\ \E cap \in 1..MaxCapacity :
          events = ("e1" :> [name |-> <<"n">>, capacity |-> cap, bookedCount |-> 0])
    /\ registrations = {}
    /\ pc = [c \in Calls |-> "idle"]
    /\ eventID = [c \in Calls |-> ""]
    /\ userEmail = [c \in Calls |-> <<>>]
    /\ capacity = [c \in Calls |-> 0]
    /\ bookedCount = [c \in Calls |-> 0]
    /\ result = [c \in Calls |-> "none"]
    /\ tx = [c \in Calls |-> "none"]
    /\ rowLock = [e \in EventIds |-> NoCall]
    /\ txBooked = [c \in Calls |-> 0]
    /\ txRegs = [c \in Calls |-> {}]
    /\ reading = 0
    /\ OtherInit

NextSent ==
    \/ \E c \in Calls, id \in PathIds : Register(c, id, SentEmail(c))
    \/ \E c \in Calls : BookStep(c)
    \/ \E c \in Calls : BookFault(c)

\* Register requests whose bodies carry the e-mails as the clients spelled them
SpecSent == InitSent /\ [][NextSent]_vars

\* the two characters are one letter in either case, or the same character
SameLetter(x, y) ==
    \/ x = y
    \/ {x, y} = {"a", "A"}
    \/ {x, y} = {"b", "B"}

\* s without its leading and trailing blanks, by position
Unpadded(s) ==
    LET inked == {i \in 1..Len(s) : s[i] # " "} IN
    IF inked = {} THEN <<>>
    ELSE LET lo == CHOOSE i \in inked : \A j \in inked : i <= j
             hi == CHOOSE i \in inked : \A j \in inked : j <= i
         IN  [i \in 1..(hi - lo + 1) |-> s[lo + i - 1]]

\* the two e-mails differ at most in letter case and surrounding whitespace
SameAttendee(r1, r2) ==
    LET u1 == Unpadded(r1)
        u2 == Unpadded(r2)
    IN  /\ Len(u1) = Len(u2)
        /\ \A i \in 1..Len(u1) : SameLetter(u1[i], u2[i])

\* C31: attendee keys are compared after normalisation: of two Register
\* requests for one event whose e-mails differ only in letter case or in
\* surrounding whitespace at most one returns Ok, and once one has, the
\* other is answered AlreadyRegistered (unless storage failed under it).
C31_RespelledAttendeeOnce ==
    \A c, d \in Calls :
        (c # d /\ SameAttendee(SentEmail(c), SentEmail(d))
              /\ pc[c] = "returned" /\ result[c] = "Ok"
              /\ pc[d] # "idle" /\ result[d] # "ValidationError"
              /\ eventID[d] = eventID[c]) =>
            /\ userEmail[d] = userEmail[c]
            /\ result[d] # "Ok"
            /\ (pc[d] = "returned" /\ result[d] # "Failure")
                  => result[d] = "AlreadyRegistered"
            /\ Cardinality({r \in registrations :
                              /\ r.eventID = eventID[c]
                              /\ SameAttendee(r.userEmail, SentEmail(c))}) = 1

\* an address was registered, and the same address in capitals and padded
\* with blanks was refused as already registered, with a seat still free
C31_Witness ==
    \E c, d \in Calls :
        /\ c # d /\ SentEmail(c) # SentEmail(d)
        /\ SameAttendee(SentEmail(c), SentEmail(d))
        /\ pc[c] = "returned" /\ result[c] = "Ok"
        /\ pc[d] = "returned" /\ result[d] = "AlreadyRegistered"
        /\ eventID[c] = eventID[d] /\ eventID[c] \in DOMAIN events
        /\ events[eventID[c]].bookedCount < events[eventID[c]].capacity

====
